---- MODULE Spec2Model ----
(***************************************************************************)
(* Model of bot.py: the CSV knowledge loader, the substring matcher        *)
(* find_best_answer, and the Telegram handlers start / help_command /      *)
(* clear / handle_message with the generative fallback.                    *)
(*                                                                         *)
(* A Python str is a sequence of characters (one-character strings); a     *)
(* fixed literal of the program is a single element of such a sequence.    *)
(* A Python value that may be None is a record [none, s].                  *)
(***************************************************************************)
EXTENDS Integers, Sequences, FiniteSets, TLC

\* ------------------------------------------------------------------ bounds
\* Free rows of the CSV source in front of the filler rows.
MaxRows == 2
\* Largest number of filler rows that follow the free rows.
MaxPad == 30
\* knowledge_base[:30]
SLICE == 30

\* ------------------------------------------------------------------ str
Min(a, b) == IF a <= b THEN a ELSE b

Range(f) == {f[i] : i \in DOMAIN f}

None == [none |-> TRUE, s |-> <<>>]

Str(t) == [none |-> FALSE, s |-> t]

\* str.lower(), on the characters the model uses
LowerChar(c) ==
  CASE c = "H" -> "h"
    [] c = "I" -> "i"
    [] c = "O" -> "o"
    [] OTHER -> c

Lower(t) == [i \in 1..Len(t) |-> LowerChar(t[i])]

\* needle in hay
Contains(needle, hay) ==
  \E i \in 0..(Len(hay) - Len(needle)) :
    SubSeq(hay, i + 1, i + Len(needle)) = needle

Whitespace == {" ", "\n"}

\* str.strip()
Strip(t) ==
  LET keep == {i \in 1..Len(t) : t[i] \notin Whitespace}
  IN  IF keep = {} THEN <<>>
      ELSE LET lo == CHOOSE i \in keep : \A j \in keep : i <= j
               hi == CHOOSE i \in keep : \A j \in keep : i >= j
           IN  SubSeq(t, lo, hi)

\* f"{v}": None formats as the text None
Format(v) == IF v.none THEN <<"N", "o", "n", "e">> ELSE v.s

\* sep.join(parts)
RECURSIVE Join(_, _)
Join(sep, parts) ==
  IF parts = <<>> THEN <<>>
  ELSE IF Len(parts) = 1 THEN parts[1]
  ELSE parts[1] \o sep \o Join(sep, Tail(parts))

\* bool(v) of a value that is None or a str
Truthy(v) == ~v.none /\ v.s # <<>>

\* ------------------------------------------------------------------ CSV source
QUESTION == "question"
ANSWER == "answer"

\* The header line of the file.
Headers ==
  { <<QUESTION, ANSWER>>, <<ANSWER, QUESTION>>, <<"id", QUESTION>> }

\* A line the reader cannot decode or parse: reading it raises.
Corrupt == << <<"\\x00">> >>

\* Lines of the file after the header, as the cells the csv reader splits
\* them into.  <<>> is a blank line.
RowChoices ==
  { <<>>,
    << <<"h", "i">> >>,
    << <<"h", "i">>, <<"9">> >>,
    << <<"O", "h">>, <<"O", "n">> >>,
    << <<"h", "i">>, <<>> >>,
    << <<" ">>, <<" ">> >>,
    Corrupt }

Filler == << <<"z", "z">>, <<"p">> >>

PadCounts == {0} \cup ((SLICE - 1)..MaxPad)

RECURSIVE Repeat(_, _)
Repeat(x, n) == IF n = 0 THEN <<>> ELSE <<x>> \o Repeat(x, n - 1)

RECURSIVE SeqsUpTo(_, _)
SeqsUpTo(S, n) ==
  IF n = 0 THEN {<<>>}
  ELSE LET shorter == SeqsUpTo(S, n - 1)
       IN  shorter \cup {Append(q, x) : q \in {p \in shorter : Len(p) = n - 1}, x \in S}

Files ==
  { [exists |-> TRUE, fieldnames |-> h, rows |-> free \o Repeat(Filler, pad)] :
      h \in Headers, free \in SeqsUpTo(RowChoices, MaxRows), pad \in PadCounts }
  \cup { [exists |-> FALSE, fieldnames |-> <<>>, rows |-> <<>>] }

\* csv.DictReader: dict(zip(fieldnames, row)), a short row's missing fields
\* are None (restval).  The cells of a long row past the header go under the
\* key None, which the program never reads; they are left out.
DictRow(fieldnames, row) ==
  [k \in Range(fieldnames) |->
     LET i == CHOOSE j \in 1..Len(fieldnames) :
                /\ fieldnames[j] = k
                /\ \A l \in 1..Len(fieldnames) : fieldnames[l] = k => l <= j
     IN  IF i <= Len(row) THEN Str(row[i]) ELSE None]

\* ------------------------------------------------------------------ texts
\* The utterances users send (filters.TEXT: never empty).
Utterances ==
  { <<"O", "h", " ", "H", "I">>,
    <<"h">> }

Users == {1, 2}

APOLOGY == <<"Sorry, there was an issue generating a response. Please try again later.">>
WELCOME == <<"Welcome to GrowTogetherFrow AI Assistant!">>
HELP == <<"Just type your question">>
CLEARED == <<"Chat history cleared successfully.">>
FRAMING == "You are GrowTogetherFrow's assistant. Use ONLY the following knowledge to answer clearly and positively.\n\nKnowledge Base:\n"
USER_QUESTION == "User Question: "
TONE == "\nAnswer in a friendly, motivational tone:"

\* What client.chat.completions.create does with one request: it raises, or
\* returns a completion whose choices carry a message content (a str or None).
NoCall == [raises |-> FALSE, detail |-> "no call", choices |-> <<>>]

BackendOutcomes ==
  { [raises |-> TRUE, detail |-> "APITimeoutError", choices |-> <<>>] }
  \cup { [raises |-> FALSE, detail |-> "", choices |-> c] :
           c \in { <<>>,
                   <<None>>,
                   <<Str(<<>>)>>,
                   <<Str(<<" ", "o", "k", "\n">>)>> } }

\* Telegram refuses a message with no text; one of whitespace alone it may
\* refuse as well.
TransportAccepts(text) ==
  IF text = <<>> THEN {FALSE}
  ELSE IF Strip(text) = <<>> THEN {TRUE, FALSE}
  ELSE {TRUE}

Action(name) == [kind |-> "action", text |-> <<name>>]
Message(text) == [kind |-> "message", text |-> text]

\* ------------------------------------------------------------------ state
VARIABLES
  env,             \* the credentials present in the environment
  csvfile,         \* the knowledge source: existence, header, unread lines
  phase,           \* "import" | "loading" | "imported" | "running" | "exited"
  data,            \* load_knowledge_csv's local list
  knowledge_base,  \* the module-level store
  log,             \* the records logged so far
  user_data,       \* context.user_data of each user
  handler,         \* the handler of the update being processed
  pc,              \* its position: "idle" | "send_chat_action" | "reply_text" | "done" | "raised"
  chat_id,         \* update.effective_chat.id
  user_text,       \* update.message.text
  answer,          \* handle_message's answer
  calls,           \* the prompts this update passed to the backend
  completion,      \* what the backend did with the call
  reply,           \* handle_message's reply
  exc,             \* the exception that left the handler
  sent,            \* what the transport delivered for this update
  asked            \* per utterance, the results find_best_answer has given

loadvars == <<env, csvfile, phase, data, knowledge_base>>
reqvars == <<handler, pc, chat_id, user_text, answer, calls, completion, reply, exc, sent>>
vars == <<env, csvfile, phase, data, knowledge_base, log, user_data,
          handler, pc, chat_id, user_text, answer, calls, completion, reply,
          exc, sent, asked>>

LogRecord(level, msg) == [level |-> level, msg |-> msg]

Init ==
  /\ env \in SUBSET {"TELEGRAM_TOKEN", "OPENAI_API_KEY"}
  /\ csvfile \in Files
  /\ phase = "import"
  /\ data = <<>>
  /\ knowledge_base = <<>>
  /\ log = {}
  /\ user_data = [u \in Users |-> {}]
  /\ handler = ""
  /\ pc = "idle"
  /\ chat_id = 0
  /\ user_text = <<>>
  /\ answer = None
  /\ calls = <<>>
  /\ completion = NoCall
  /\ reply = <<>>
  /\ exc = ""
  /\ sent = <<>>
  /\ asked = [t \in Utterances |-> {}]

\* ------------------------------------------------------------------ loader
\* The rows still to come with the blank lines before the next row skipped
\* (DictReader.__next__ skips rows that are []).
RECURSIVE SkipBlank(_)
SkipBlank(rows) ==
  IF rows # <<>> /\ Head(rows) = <<>> THEN SkipBlank(Tail(rows)) ELSE rows

\* open(filepath): a missing file raises, the except branch logs a warning
\* and the empty data is returned and bound to knowledge_base.
OpenMissing ==
  /\ phase = "import"
  /\ ~csvfile.exists
  /\ log' = log \cup {LogRecord("WARNING", "Could not load knowledge base")}
  /\ knowledge_base' = data
  /\ phase' = "imported"
  /\ UNCHANGED <<env, csvfile, data, user_data, reqvars, asked>>

Open ==
  /\ phase = "import"
  /\ csvfile.exists
  /\ phase' = "loading"
  /\ UNCHANGED <<env, csvfile, data, knowledge_base, log, user_data, reqvars, asked>>

\* The appended rows: those with both keys.
KeepRow(row) == QUESTION \in DOMAIN row /\ ANSWER \in DOMAIN row

\* One iteration of `for row in reader`.
ReadRow ==
  /\ phase = "loading"
  /\ LET rest == SkipBlank(csvfile.rows)
     IN  /\ rest # <<>>
         /\ Head(rest) # Corrupt
         /\ LET row == DictRow(csvfile.fieldnames, Head(rest))
            IN  data' = IF KeepRow(row) THEN Append(data, row) ELSE data
         /\ csvfile' = [csvfile EXCEPT !.rows = Tail(rest)]
  /\ UNCHANGED <<env, phase, knowledge_base, log, user_data, reqvars, asked>>

\* The reader is exhausted: the loop ends, the count is logged, data is
\* returned and bound to knowledge_base.
LoadEnd ==
  /\ phase = "loading"
  /\ SkipBlank(csvfile.rows) = <<>>
  /\ csvfile' = [csvfile EXCEPT !.rows = <<>>]
  /\ log' = log \cup {LogRecord("INFO", "Loaded knowledge entries")}
  /\ knowledge_base' = data
  /\ phase' = "imported"
  /\ UNCHANGED <<env, data, user_data, reqvars, asked>>

\* Reading the next row raises: the except branch logs a warning and the
\* function returns data as it stands.
LoadFail ==
  /\ phase = "loading"
  /\ LET rest == SkipBlank(csvfile.rows)
     IN  /\ rest # <<>>
         /\ Head(rest) = Corrupt
  /\ csvfile' = [csvfile EXCEPT !.rows = <<>>]
  /\ log' = log \cup {LogRecord("WARNING", "Could not load knowledge base")}
  /\ knowledge_base' = data
  /\ phase' = "imported"
  /\ UNCHANGED <<env, data, user_data, reqvars, asked>>

\* main(): refuses to run without both credentials.
MainExit ==
  /\ phase = "imported"
  /\ env # {"TELEGRAM_TOKEN", "OPENAI_API_KEY"}
  /\ phase' = "exited"
  /\ UNCHANGED <<env, csvfile, data, knowledge_base, log, user_data, reqvars, asked>>

MainRun ==
  /\ phase = "imported"
  /\ env = {"TELEGRAM_TOKEN", "OPENAI_API_KEY"}
  /\ log' = log \cup {LogRecord("INFO", "Bot is running")}
  /\ phase' = "running"
  /\ UNCHANGED <<env, csvfile, data, knowledge_base, user_data, reqvars, asked>>

\* ------------------------------------------------------------------ matcher
Hit(v) == [raised |-> FALSE, value |-> v]
Raised == [raised |-> TRUE, value |-> None]

\* The loop of find_best_answer from entry i on.  item["question"].lower()
\* raises AttributeError on a question that is None.
RECURSIVE ScanFrom(_, _, _)
ScanFrom(kb, query, i) ==
  IF i > Len(kb) THEN Hit(None)
  ELSE IF kb[i][QUESTION].none THEN Raised
  ELSE IF Contains(Lower(kb[i][QUESTION].s), query) THEN Hit(kb[i][ANSWER])
  ELSE ScanFrom(kb, query, i + 1)

find_best_answer(query) == ScanFrom(knowledge_base, Lower(query), 1)

\* ------------------------------------------------------------------ prompt
\* The context built from the whole store, without the slice.
ContextEntriesUnsliced(kb) == kb

\* knowledge_base[:30]
ContextEntries(kb) == SubSeq(kb, 1, Min(SLICE, Len(kb)))

\* f"{k['question']}: {k['answer']}"
Serialize(k) == Format(k[QUESTION]) \o <<":", " ">> \o Format(k[ANSWER])

ContextText(kb) ==
  LET entries == ContextEntries(kb)
  IN  Join(<<"\n">>, [i \in 1..Len(entries) |-> Serialize(entries[i])])

Prompt(context_text, text) ==
  <<FRAMING>> \o context_text \o <<"\n", "\n", USER_QUESTION>> \o text \o <<TONE>>

\* An except branch that tells the user what went wrong.
ExceptReplyWithDetail(e) == APOLOGY \o <<e>>

\* The reply of the except branch for the exception e.
ExceptReply(e) == APOLOGY

\* The except branch: logger.exception, then the apology.
Except(prompts, e) ==
  [calls |-> prompts, reply |-> ExceptReply(e), logged |-> {LogRecord("ERROR", e)}]

\* A try statement that calls the backend again after a call that raised.
TryGenerateRetrying(kb, text, o) ==
  LET prompt == Prompt(ContextText(kb), text)
  IN  IF o.raises THEN Except(<<prompt, prompt>>, o.detail)
      ELSE IF o.choices = <<>> THEN Except(<<prompt>>, "IndexError")
      ELSE IF o.choices[1].none THEN Except(<<prompt>>, "AttributeError")
      ELSE [calls |-> <<prompt>>, reply |-> Strip(o.choices[1].s), logged |-> {}]

\* The try statement of handle_message on the backend outcome o: the prompts
\* passed to the backend, the reply and the records logged.
TryGenerate(kb, text, o) ==
  LET prompt == Prompt(ContextText(kb), text)
  IN  IF o.raises THEN Except(<<prompt>>, o.detail)
      ELSE IF o.choices = <<>> THEN Except(<<prompt>>, "IndexError")
      ELSE IF o.choices[1].none THEN Except(<<prompt>>, "AttributeError")
      ELSE [calls |-> <<prompt>>, reply |-> Strip(o.choices[1].s), logged |-> {}]

\* ------------------------------------------------------------------ handlers
\* The application processes one update at a time.
Ready == phase = "running" /\ pc \in {"idle", "done", "raised"}

Command(name, u, text) ==
  /\ handler' = name
  /\ chat_id' = u
  /\ user_text' = <<>>
  /\ answer' = None
  /\ calls' = <<>>
  /\ completion' = NoCall
  /\ reply' = <<>>
  /\ exc' = ""
  /\ sent' = <<Message(text)>>
  /\ pc' = "done"

start(u) ==
  /\ Ready
  /\ Command("start", u, WELCOME)
  /\ UNCHANGED <<loadvars, log, user_data, asked>>

help_command(u) ==
  /\ Ready
  /\ Command("help_command", u, HELP)
  /\ UNCHANGED <<loadvars, log, user_data, asked>>

\* A clear that wipes the knowledge store along with the user's data.
clearEverything(u) ==
  /\ Ready
  /\ user_data' = [user_data EXCEPT ![u] = {}]
  /\ knowledge_base' = <<>>
  /\ Command("clear", u, CLEARED)
  /\ UNCHANGED <<env, csvfile, phase, data, log, asked>>

clear(u) ==
  /\ Ready
  /\ user_data' = [user_data EXCEPT ![u] = {}]
  /\ Command("clear", u, CLEARED)
  /\ UNCHANGED <<loadvars, log, asked>>

\* handle_message up to its first await: the typing indicator.
handle_message_typing(u, text) ==
  /\ Ready
  /\ handler' = "handle_message"
  /\ chat_id' = u
  /\ user_text' = text
  /\ answer' = None
  /\ calls' = <<>>
  /\ completion' = NoCall
  /\ reply' = <<>>
  /\ exc' = ""
  /\ sent' = <<Action("typing")>>
  /\ pc' = "send_chat_action"
  /\ UNCHANGED <<loadvars, log, user_data, asked>>

\* From the match to the reply being ready: find_best_answer, then either
\* the stored answer or the try statement around the backend call.
handle_message_answer ==
  /\ phase = "running"
  /\ pc = "send_chat_action"
  /\ LET found == find_best_answer(user_text)
     IN  /\ asked' = [asked EXCEPT ![user_text] = @ \cup {found}]
         /\ \/ /\ found.raised
               /\ exc' = "AttributeError"
               /\ pc' = "raised"
               /\ UNCHANGED <<answer, calls, completion, reply, log>>
            \/ /\ ~found.raised
               /\ Truthy(found.value)
               /\ answer' = found.value
               /\ reply' = found.value.s
               /\ pc' = "reply_text"
               /\ UNCHANGED <<calls, completion, exc, log>>
            \/ /\ ~found.raised
               /\ ~Truthy(found.value)
               /\ answer' = found.value
               /\ \E o \in BackendOutcomes :
                    LET r == TryGenerate(knowledge_base, user_text, o)
                    IN  /\ completion' = o
                        /\ calls' = r.calls
                        /\ reply' = r.reply
                        /\ log' = log \cup r.logged
               /\ pc' = "reply_text"
               /\ UNCHANGED exc
  /\ UNCHANGED <<loadvars, user_data, handler, chat_id, user_text, sent>>

\* await update.message.reply_text(reply)
handle_message_reply ==
  /\ phase = "running"
  /\ pc = "reply_text"
  /\ \E ok \in TransportAccepts(reply) :
       \/ /\ ok
          /\ sent' = Append(sent, Message(reply))
          /\ pc' = "done"
          /\ UNCHANGED exc
       \/ /\ ~ok
          /\ exc' = "BadRequest"
          /\ pc' = "raised"
          /\ UNCHANGED sent
  /\ UNCHANGED <<loadvars, log, user_data, handler, chat_id, user_text, answer,
                 calls, completion, reply, asked>>

Next ==
  \/ OpenMissing
  \/ Open
  \/ ReadRow
  \/ LoadEnd
  \/ LoadFail
  \/ MainExit
  \/ MainRun
  \/ \E u \in Users : start(u)
  \/ \E u \in Users : help_command(u)
  \/ \E u \in Users : clear(u)
  \/ \E u \in Users, text \in Utterances : handle_message_typing(u, text)
  \/ handle_message_answer
  \/ handle_message_reply

Spec == Init /\ [][Next]_vars

\* ------------------------------------------------------------------ claims
\* The update being processed is a text message whose match has been made.
Matched == handler = "handle_message" /\ pc \in {"reply_text", "done", "raised"}

\* The handler has got past the match without find_best_answer raising.
Answered == Matched /\ exc # "AttributeError"

\* The entries of the store whose lowercased question lies in the lowercased
\* utterance.
Hits(kb, text) ==
  {i \in 1..Len(kb) :
     /\ ~kb[i][QUESTION].none
     /\ Contains(Lower(kb[i][QUESTION].s), Lower(text))}

FirstHit(kb, text) ==
  CHOOSE i \in Hits(kb, text) : \A j \in Hits(kb, text) : i <= j

\* C1: find_best_answer returns the answer of the first entry, in store
\* order, whose lowercased question is a substring of the lowercased
\* utterance, and returns None exactly when no entry's question is contained.
C1_FirstContainedQuestionWins ==
  Matched =>
    /\ exc # "AttributeError"
    /\ (Hits(knowledge_base, user_text) = {} <=> answer.none)
    /\ Hits(knowledge_base, user_text) # {} =>
         answer = knowledge_base[FirstHit(knowledge_base, user_text)][ANSWER]

\* C2: when an entry's question is contained in the utterance, the backend
\* is not called and the reply is that entry's answer text unchanged, an
\* empty answer text included.
C2_DirectAnswerSkipsBackend ==
  ( /\ Answered
    /\ Hits(knowledge_base, user_text) # {}
    /\ ~knowledge_base[FirstHit(knowledge_base, user_text)][ANSWER].none )
  => /\ calls = <<>>
     /\ reply = knowledge_base[FirstHit(knowledge_base, user_text)][ANSWER].s

\* C3: when the backend call raises, the reply is the fixed apology and
\* nothing else, the error's detail is in the log and not in the reply, and
\* what the user is sent is that reply.
C3_BackendFailureGivesApology ==
  (Matched /\ completion.raises) =>
    /\ pc # "raised"
    /\ reply = APOLOGY
    /\ completion.detail \notin Range(reply)
    /\ LogRecord("ERROR", completion.detail) \in log
    /\ pc = "done" => sent = <<Action("typing"), Message(APOLOGY)>>

C3_Witness ==
  /\ Matched
  /\ completion.raises
  /\ pc = "done"
  /\ sent[Len(sent)] = Message(APOLOGY)

\* Where the token tok stands in the prompt p.
Places(p, tok) == {i \in 1..Len(p) : p[i] = tok}

\* C4: an utterance costs at most one backend call, and exactly one when
\* find_best_answer gave no direct answer; a call that failed is not made
\* again, its failure is the apology reply; and a call's prompt carries the
\* one utterance being handled.
C4_OneBackendCallPerUtterance ==
  /\ Len(calls) <= 1
  /\ (Answered /\ ~Truthy(answer)) => Len(calls) = 1
  /\ (Answered /\ Hits(knowledge_base, user_text) = {}) => Len(calls) = 1
  /\ (Matched /\ completion.raises) => (Len(calls) = 1 /\ reply = APOLOGY)
  /\ \A c \in 1..Len(calls) :
       /\ Cardinality(Places(calls[c], USER_QUESTION)) = 1
       /\ LET at == CHOOSE i \in Places(calls[c], USER_QUESTION) : TRUE
          IN  SubSeq(calls[c], at + 1, Len(calls[c])) = user_text \o <<TONE>>

C4_Witness ==
  /\ Matched
  /\ pc = "done"
  /\ Hits(knowledge_base, user_text) = {}
  /\ completion.raises
  /\ Len(calls) = 1

\* The serialization the prompt is to hold for entry i of the store.
Line(kb, i) == Format(kb[i][QUESTION]) \o <<":", " ">> \o Format(kb[i][ANSWER])

\* Where each of the first n lines starts in the knowledge section (0-based).
RECURSIVE LineStarts(_, _)
LineStarts(kb, n) ==
  IF n = 0 THEN <<>>
  ELSE IF n = 1 THEN <<0>>
  ELSE LET before == LineStarts(kb, n - 1)
       IN  Append(before, before[n - 1] + Len(Line(kb, n - 1)) + 1)

\* The prompt p is the framing, a knowledge section made of the first
\* min(30, |kb|) entries in store order, one "<question>: <answer>" line
\* each with a newline between two lines, and then the literal utterance.
PromptAsSpecified(p, kb, text) ==
  LET n == Min(30, Len(kb))
      at == LineStarts(kb, n)
      size == IF n = 0 THEN 0 ELSE at[n] + Len(Line(kb, n))
  IN  /\ Len(p) = 1 + size + 3 + Len(text) + 1
      /\ p[1] = FRAMING
      /\ \A i \in 1..n :
           /\ SubSeq(p, 2 + at[i], 1 + at[i] + Len(Line(kb, i))) = Line(kb, i)
           /\ i < n => p[2 + at[i] + Len(Line(kb, i))] = "\n"
      /\ SubSeq(p, 2 + size, Len(p)) =
           <<"\n", "\n", USER_QUESTION>> \o text \o <<TONE>>

\* C5: with no question contained in the utterance, the prompt passed to
\* the backend holds exactly the first min(30, |store|) entries in store
\* order as "<question>: <answer>" lines, then the literal utterance; with an
\* empty store the knowledge section is empty and the call is still made.
C5_PromptHoldsFirstThirtyEntries ==
  /\ (Answered /\ Hits(knowledge_base, user_text) = {}) => Len(calls) = 1
  /\ \A c \in 1..Len(calls) :
       PromptAsSpecified(calls[c], knowledge_base, user_text)
  /\ (calls # <<>> /\ knowledge_base = <<>>) =>
       calls[1] = <<FRAMING, "\n", "\n", USER_QUESTION>> \o user_text \o <<TONE>>

C5_Witness ==
  /\ Answered
  /\ Hits(knowledge_base, user_text) = {}
  /\ Len(knowledge_base) > 30
  /\ knowledge_base[1] # knowledge_base[2]
  /\ Len(calls) = 1
  /\ pc = "done"

C5_WitnessEmptyStore ==
  /\ Answered
  /\ knowledge_base = <<>>
  /\ Len(calls) = 1
  /\ pc = "done"

\* The text v is missing, empty or whitespace alone.
Blank(v) == v.none \/ Strip(v.s) = <<>>

\* C6: no entry of the knowledge store has an empty or whitespace-only
\* question or answer.
C6_NoBlankEntries ==
  \A i \in 1..Len(knowledge_base) :
    /\ ~Blank(knowledge_base[i][QUESTION])
    /\ ~Blank(knowledge_base[i][ANSWER])

\* The backend returned a completion with no text in it.
EmptyCompletion ==
  /\ calls # <<>>
  /\ ~completion.raises
  /\ \/ completion.choices = <<>>
     \/ completion.choices[1].none
     \/ completion.choices[1].s = <<>>

\* C7: an empty or non-text completion counts as a backend failure: the
\* user gets the apology, never an empty reply, and no error leaves the
\* handler.
C7_EmptyCompletionGivesApology ==
  (Matched /\ EmptyCompletion) =>
    /\ reply = APOLOGY
    /\ pc # "raised"

\* C8: no failure leaves handle_message: every update ends with a reply
\* sent, never with an exception.
C8_NothingEscapesHandler ==
  /\ pc # "raised"
  /\ exc = ""

\* C9: when reading or parsing the source fails, a warning is logged and
\* the knowledge store is empty, with no partially loaded entries left.
C9_FailedLoadGivesEmptyStore ==
  (phase \in {"imported", "running", "exited"}
     /\ LogRecord("WARNING", "Could not load knowledge base") \in log)
  => knowledge_base = <<>>

\* C10: once loaded, knowledge_base never changes, whatever handlers run
\* and for whichever users; clear empties the user_data of the user who
\* invoked it and of nobody else; and find_best_answer gives one result per
\* utterance, however often it is asked.
C10_StoreNeverChanges ==
  /\ [][ /\ phase \in {"imported", "running", "exited"} =>
              knowledge_base' = knowledge_base
         /\ (Ready /\ handler' = "clear") =>
              /\ user_data'[chat_id'] = {}
              /\ \A v \in Users \ {chat_id'} : user_data'[v] = user_data[v] ]_vars
  /\ [](\A t \in Utterances : Cardinality(asked[t]) <= 1)

C10_Witness ==
  /\ handler = "clear"
  /\ pc = "done"
  /\ knowledge_base # <<>>
  /\ \A t \in Utterances : asked[t] # {}

====
